---- MODULE Spec2Model ----
(***************************************************************************)
(* A model of node-simplex: the LinearProgram dictionary, its oracle       *)
(* predicates, the ratio test, the pivot, the cycling-avoidance policy and *)
(* the step-by-step solve() generator with its two-phase helper.           *)
(*                                                                         *)
(* Exact fractions are pairs <<numer, denom>> in lowest terms with a       *)
(* positive denominator.  An expression is a sequence of terms (variable,  *)
(* coefficient) in the order algebra.js keeps them, plus the list of       *)
(* constants, which algebra.js leaves EMPTY when the constant is zero.     *)
(* Fraction.valueOf() is compared exactly; the rounding of IEEE doubles is *)
(* not modelled.                                                           *)
(***************************************************************************)
EXTENDS Integers, Sequences, FiniteSets, TLC

(* ------------------------------ fractions ------------------------------ *)

Abs(n) == IF n < 0 THEN -n ELSE n

RECURSIVE GCD(_, _)
GCD(a, b) == IF b = 0 THEN a ELSE GCD(b, a % b)

\* new Fraction(n, d).reduce()
Frac(n, d) ==
  LET s == IF d < 0 THEN -1 ELSE 1
      g == GCD(Abs(n), Abs(d))
  IN  <<(s * n) \div g, (s * d) \div g>>

Zero == <<0, 1>>
One == <<1, 1>>
Int2F(n) == <<n, 1>>

FAdd(a, b) == Frac(a[1] * b[2] + b[1] * a[2], a[2] * b[2])
FMul(a, b) == Frac(a[1] * b[1], a[2] * b[2])
FDiv(a, b) == Frac(a[1] * b[2], a[2] * b[1])
FNeg(a) == <<-a[1], a[2]>>
FAbs(a) == <<Abs(a[1]), a[2]>>
\* a.valueOf() < b.valueOf()
FLt(a, b) == a[1] * b[2] < b[1] * a[2]

(* ----------------------------- expressions ----------------------------- *)

Term(v, c) == [variable |-> v, coeff |-> c]
Expr(ts, cs) == [terms |-> ts, constants |-> cs]
EmptyExpr == Expr(<<>>, <<>>)

RECURSIVE SumF(_)
SumF(cs) == IF cs = <<>> THEN Zero ELSE FAdd(Head(cs), SumF(Tail(cs)))

\* Expression.prototype.constant(): the sum of the constants list
constant(e) == SumF(e.constants)

\* like terms are merged into the first occurrence, in list order
RECURSIVE combineLikeTerms(_)
combineLikeTerms(ts) ==
  IF ts = <<>> THEN <<>>
  ELSE LET h == Head(ts)
           same == SelectSeq(Tail(ts), LAMBDA t : t.variable = h.variable)
           rest == SelectSeq(Tail(ts), LAMBDA t : t.variable # h.variable)
           c == SumF(<<h.coeff>> \o [i \in 1..Len(same) |-> same[i].coeff])
       IN  <<Term(h.variable, c)>> \o combineLikeTerms(rest)

\* Expression.prototype.simplify(): merge, drop zero terms, constants [] if 0
simplify(e) ==
  LET ts == SelectSeq(combineLikeTerms(e.terms), LAMBDA t : t.coeff # Zero)
      k == constant(e)
  IN  Expr(ts, IF k = Zero THEN <<>> ELSE <<k>>)

\* a.add(b): concatenate, then simplify
ExprAdd(a, b) == simplify(Expr(a.terms \o b.terms, a.constants \o b.constants))

\* new Expression(1).multiply(f).multiply(e): every term and constant times f
ExprScale(e, f) ==
  simplify(Expr([i \in 1..Len(e.terms) |->
                    Term(e.terms[i].variable, FMul(e.terms[i].coeff, f))],
                [i \in 1..Len(e.constants) |-> FMul(e.constants[i], f)]))

\* Term.prototype.eval(values): the term with its variable substituted
termEval(t, values) ==
  IF t.variable \in DOMAIN values
  THEN ExprScale(values[t.variable], t.coeff)
  ELSE Expr(<<t>>, <<>>)

RECURSIVE evalFrom(_, _, _)
evalFrom(acc, ts, values) ==
  IF ts = <<>> THEN acc
  ELSE evalFrom(ExprAdd(acc, termEval(Head(ts), values)), Tail(ts), values)

\* Expression.prototype.eval(values, simplify): substitution term by term;
\* with simplify = true the accumulator starts from [constant()], which stays
\* an unsimplified [0] when the expression has no term.
eval(e, values, simp) ==
  evalFrom(Expr(<<>>, IF simp THEN <<constant(e)>> ELSE e.constants),
           e.terms, values)

\* coeffOf(terms, variableName)
RECURSIVE coeffOf(_, _)
coeffOf(ts, v) ==
  IF ts = <<>> THEN Zero
  ELSE IF Head(ts).variable = v THEN Head(ts).coeff ELSE coeffOf(Tail(ts), v)

\* getConstant(constants): constants[0] or 0
getConstant(cs) == IF Len(cs) > 0 /\ cs[1] # Zero THEN cs[1] ELSE Zero

\* Expression.prototype.toString(): one token per printed term, made of the
\* sign, the magnitude (left out when it is 1) and the variable name, then one
\* token per constant.
toString(e) ==
  [i \in 1..Len(e.terms) |->
      LET t == e.terms[i]
          a == FAbs(t.coeff)
      IN  <<IF t.coeff[1] < 0 THEN "-" ELSE "+",
            IF a = One THEN "" ELSE ToString(a[1]),
            IF a[2] = 1 THEN "" ELSE ToString(a[2]),
            t.variable>>]
  \o
  [i \in 1..Len(e.constants) |->
      LET a == FAbs(e.constants[i])
      IN  <<IF e.constants[i][1] < 0 THEN "-" ELSE "+",
            ToString(a[1]),
            IF a[2] = 1 THEN "" ELSE ToString(a[2]),
            "">>]

\* An equation: lhs is the list of variable names of the left-hand terms
\* (coefficient 1, no constant), rhs an expression.
Eq(l, r) == [lhs |-> l, rhs |-> r]

\* Equation.prototype.solveFor(v) for a linear equation whose rhs holds v:
\* the other rhs terms in order, minus the lhs terms, plus the constant, all
\* divided by minus v's coefficient.
solveFor(eq, v) ==
  LET c == coeffOf(eq.rhs.terms, v)
      others == SelectSeq(eq.rhs.terms, LAMBDA t : t.variable # v)
      moved == [i \in 1..Len(eq.lhs) |-> Term(eq.lhs[i], FNeg(One))]
      newRhs == simplify(Expr(others \o moved, <<constant(eq.rhs)>>))
  IN  ExprScale(newRhs, FDiv(One, FNeg(c)))

(* ------------------------------ dictionary ----------------------------- *)

OPTIMIZABLE == "optimizable"
OPTIMAL == "optimal"
UNBOUNDED == "unbounded"
INFEASIBLE == "infeasible"
HELP_NEEDED == "helper-needed"
HELPER_CREATED == "helper-created"
HELPER_FEASIBLE == "helper-feasible"
ORIGIN_FEASIBLE == "origin-feasible"

Range(s) == {s[i] : i \in 1..Len(s)}

\* Set.prototype.add / delete on an insertion-ordered Set
setAdd(s, x) == IF x \in Range(s) THEN s ELSE Append(s, x)
setDelete(s, x) == SelectSeq(s, LAMBDA y : y # x)

RECURSIVE addAll(_, _)
addAll(s, xs) == IF xs = <<>> THEN s ELSE addAll(setAdd(s, Head(xs)), Tail(xs))

termNames(ts) == [i \in 1..Len(ts) |-> ts[i].variable]

RECURSIVE rhsNames(_, _)
rhsNames(s, cons) ==
  IF cons = <<>> THEN s
  ELSE rhsNames(addAll(s, termNames(Head(cons).rhs.terms)), Tail(cons))

RECURSIVE lhsNames(_, _)
lhsNames(s, cons) ==
  IF cons = <<>> THEN s
  ELSE lhsNames(setAdd(s, Head(cons).lhs[1]), Tail(cons))

LP(n, obj, cons, bs, nbs, h) ==
  [variables |-> n, objective |-> obj, constraints |-> cons,
   basics |-> bs, nonBasics |-> nbs, helper |-> h]

NoLP == LP(0, EmptyExpr, <<>>, <<>>, <<>>, "")

\* A faulty constructor, without the assertion variables > 0: the variant of
\* accepts that C14 is shown to exclude
acceptsAnyCount(plain) ==
  /\ \A i \in 1..Len(plain.constraints) :
        /\ Len(plain.constraints[i].lhs) = 1
        /\ Len(plain.constraints[i].rhs.terms) <= plain.variables
  /\ Len(rhsNames(termNames(plain.objective.terms), plain.constraints))
        = plain.variables

\* The three assertions of the constructor
accepts(plain) ==
  /\ plain.variables > 0
  /\ \A i \in 1..Len(plain.constraints) :
        /\ Len(plain.constraints[i].lhs) = 1
        /\ Len(plain.constraints[i].rhs.terms) <= plain.variables
  /\ Len(rhsNames(termNames(plain.objective.terms), plain.constraints))
        = plain.variables

\* new LinearProgram(plain), deepCopy = true, when the assertions pass
LinearProgram(plain) ==
  LP(plain.variables,
     simplify(plain.objective),
     plain.constraints,
     lhsNames(<<>>, plain.constraints),
     rhsNames(termNames(plain.objective.terms), plain.constraints),
     "")

isFeasible(lp) ==
  \A i \in 1..Len(lp.constraints) :
     LET cs == lp.constraints[i].rhs.constants
     IN  (Len(cs) > 0 /\ cs[1][1] >= 0) \/ Len(cs) = 0

isOptimal(lp) ==
  \A i \in 1..Len(lp.objective.terms) : lp.objective.terms[i].coeff[1] <= 0

\* A faulty unboundedness test, which looks at the first term of the
\* objective only: the variant of isUnbounded that C21 is shown to exclude
isUnboundedFirst(lp) ==
  \E i \in 1..Len(lp.objective.terms) :
     /\ i = 1
     /\ lp.objective.terms[i].coeff[1] > 0
     /\ \A j \in 1..Len(lp.constraints) :
           coeffOf(lp.constraints[j].rhs.terms,
                   lp.objective.terms[i].variable)[1] >= 0

isUnbounded(lp) ==
  \E i \in 1..Len(lp.objective.terms) :
     /\ lp.objective.terms[i].coeff[1] > 0
     /\ \A j \in 1..Len(lp.constraints) :
           coeffOf(lp.constraints[j].rhs.terms,
                   lp.objective.terms[i].variable)[1] >= 0

\* A faulty ratio test, which keeps the LARGEST bound (> for <): the variant
\* of scanConstraints that C5 is shown to exclude
RECURSIVE scanLargest(_, _, _, _)
scanLargest(cons, v, i, min) ==
  IF i > Len(cons) \/ min.threw THEN min
  ELSE
    LET coeff == coeffOf(cons[i].rhs.terms, v)
        found == [ci |-> i, threw |-> FALSE,
                  bound |-> FDiv(getConstant(cons[i].rhs.constants), FNeg(coeff))]
        step == IF coeff[1] >= 0 THEN min
                ELSE IF min.ci = 0 THEN found
                ELSE IF Len(cons[i].rhs.constants) = 0
                     THEN [min EXCEPT !.threw = TRUE]
                ELSE IF FLt(min.bound, FDiv(cons[i].rhs.constants[1], FNeg(coeff)))
                     THEN found
                     ELSE min
    IN  scanLargest(cons, v, i + 1, step)

\* The inner loop of pickEnter for one profitable variable v: min.ci = 0
\* stands for an undefined minIncrementBound; threw is the TypeError of
\* reading constants[0].valueOf() on an empty constants list.
RECURSIVE scanConstraints(_, _, _, _)
scanConstraints(cons, v, i, min) ==
  IF i > Len(cons) \/ min.threw THEN min
  ELSE
    LET coeff == coeffOf(cons[i].rhs.terms, v)
        found == [ci |-> i, threw |-> FALSE,
                  bound |-> FDiv(getConstant(cons[i].rhs.constants), FNeg(coeff))]
        step == IF coeff[1] >= 0 THEN min
                ELSE IF min.ci = 0 THEN found
                ELSE IF Len(cons[i].rhs.constants) = 0
                     THEN [min EXCEPT !.threw = TRUE]
                ELSE IF FLt(FDiv(cons[i].rhs.constants[1], FNeg(coeff)), min.bound)
                     THEN found
                     ELSE min
    IN  scanConstraints(cons, v, i + 1, step)

\* one round of the outer loop of pickEnter for the profitable variable v,
\* m being the result of its inner loop
bounded(acc, v, m) ==
  IF m.threw THEN [kind |-> "TypeError", cands |-> <<>>]
  ELSE IF m.ci = 0 THEN [kind |-> UNBOUNDED, cands |-> <<>>]
  ELSE [kind |-> "candidates",
        cands |-> Append(acc.cands,
                         [variable |-> v, ci |-> m.ci, bound |-> m.bound])]

\* A faulty outer loop of pickEnter, which takes a zero objective coefficient
\* for profitable (>= for >): the variant of pickFrom that C13 is shown to
\* exclude
RECURSIVE pickFromNonNegative(_, _, _)
pickFromNonNegative(lp, j, acc) ==
  IF j > Len(lp.nonBasics) \/ acc.kind # "candidates" THEN acc
  ELSE pickFromNonNegative(lp, j + 1,
                IF coeffOf(lp.objective.terms, lp.nonBasics[j])[1] < 0
                THEN acc
                ELSE bounded(acc, lp.nonBasics[j],
                             scanConstraints(lp.constraints, lp.nonBasics[j], 1,
                                             [ci |-> 0, threw |-> FALSE,
                                              bound |-> Zero])))

\* acc.kind stays "candidates" while the outer loop of pickEnter runs and
\* becomes UNBOUNDED or "TypeError" when the loop is left early
RECURSIVE pickFrom(_, _, _)
pickFrom(lp, j, acc) ==
  IF j > Len(lp.nonBasics) \/ acc.kind # "candidates" THEN acc
  ELSE pickFrom(lp, j + 1,
                IF coeffOf(lp.objective.terms, lp.nonBasics[j])[1] <= 0
                THEN acc
                ELSE bounded(acc, lp.nonBasics[j],
                             scanConstraints(lp.constraints, lp.nonBasics[j], 1,
                                             [ci |-> 0, threw |-> FALSE,
                                              bound |-> Zero])))

\* pickEnter(): OPTIMAL, UNBOUNDED, a TypeError, or the list of candidates;
\* a candidate names its constraint by its position in lp.constraints.
incrementBounds(res) ==
  IF res.kind = "candidates" /\ Len(res.cands) = 0
  THEN [kind |-> OPTIMAL, cands |-> <<>>]
  ELSE res

pickEnter(lp) ==
  incrementBounds(pickFrom(lp, 1, [kind |-> "candidates", cands |-> <<>>]))

getCurrentSolution(lp) == getConstant(lp.objective.constants)

\* A faulty pivot, which leaves the objective as it was: the variant of
\* pivotWith that C29 is shown to exclude
pivotKeepsObjective(lp, v, ci, newRhs) ==
  [lp EXCEPT
     !.constraints =
        [i \in 1..Len(lp.constraints) |->
            IF i = ci THEN Eq(<<v>>, newRhs)
            ELSE Eq(lp.constraints[i].lhs,
                    eval(lp.constraints[i].rhs, v :> newRhs, FALSE))],
     !.nonBasics = setAdd(setDelete(lp.nonBasics, v), lp.constraints[ci].lhs[1]),
     !.basics = setAdd(setDelete(lp.basics, lp.constraints[ci].lhs[1]), v)]

\* the body of doPivot once newConstraint.rhs is known
pivotWith(lp, v, ci, newRhs) ==
  [lp EXCEPT
     !.constraints =
        [i \in 1..Len(lp.constraints) |->
            IF i = ci THEN Eq(<<v>>, newRhs)
            ELSE Eq(lp.constraints[i].lhs,
                    eval(lp.constraints[i].rhs, v :> newRhs, FALSE))],
     !.nonBasics = setAdd(setDelete(lp.nonBasics, v), lp.constraints[ci].lhs[1]),
     !.basics = setAdd(setDelete(lp.basics, lp.constraints[ci].lhs[1]), v),
     !.objective = eval(lp.objective, v :> newRhs, TRUE)]

\* doPivot(nonBasicVariableName, constraint); the constraint is named by its
\* position ci in lp.constraints
doPivot(lp, v, ci) == pivotWith(lp, v, ci, solveFor(lp.constraints[ci], v))

(* ------------------------------- strategy ------------------------------ *)

\* A faulty emitter, whose listeners never clear the history: the variant of
\* emit that C18 is shown to exclude
emitKeeps(history, event) == history

\* The clearHistory listener that CyclingAvoidance attaches to its lp
emit(history, event) ==
  IF event \in {OPTIMAL, UNBOUNDED, INFEASIBLE} THEN {} ELSE history

\* A faulty policy, which returns the last candidate whatever its bound: the
\* variant of pick that C2 is shown to exclude
pickLast(candidates, history, lp) ==
  [res |-> candidates[Len(candidates)], history |-> {}]

\* A faulty policy, which records the signatures but never takes the second
\* candidate: the variant of pick that C17 is shown to exclude
pickFirst(candidates, history, lp) ==
  LET signature == toString(lp.objective)
  IN  [res |-> candidates[1],
       history |-> IF candidates[1].bound # Zero THEN {}
                   ELSE history \cup {signature}]

\* CyclingAvoidance.pick(candidates)
pick(candidates, history, lp) ==
  LET signature == toString(lp.objective)
  IN  IF candidates[1].bound = Zero
      THEN IF signature \in history
           THEN [res |-> IF Len(candidates) > 1 THEN candidates[2] ELSE candidates[1],
                 history |-> history]
           ELSE [res |-> candidates[1], history |-> history \cup {signature}]
      ELSE [res |-> candidates[1], history |-> {}]

(* ------------------------------ step driver ---------------------------- *)

Outcome(lp, history, result, threw, pivoted) ==
  [lp |-> lp, history |-> history, result |-> result, threw |-> threw,
   pivoted |-> pivoted]

\* next() after doPivot: the assertion and the status of the new dictionary
pivoted(lp, history) ==
  IF ~isFeasible(lp)
  THEN Outcome(lp, history, "", "AssertionError: isFeasible", TRUE)
  ELSE IF isOptimal(lp)
  THEN Outcome(lp, emit(history, OPTIMAL), OPTIMAL, "", TRUE)
  ELSE IF isUnbounded(lp)
  THEN Outcome(lp, emit(history, UNBOUNDED), UNBOUNDED, "", TRUE)
  ELSE Outcome(lp, emit(history, OPTIMIZABLE), OPTIMIZABLE, "", TRUE)

\* next() once the strategy has picked p.res and left p.history
picked(lp, p) == pivoted(doPivot(lp, p.res.variable, p.res.ci), p.history)

\* A faulty next(), which picks a candidate and reports OPTIMIZABLE without
\* doing the pivot: the variant of entered that C26 is shown to exclude
enteredIdle(lp, history, res) ==
  IF res.kind = "TypeError"
  THEN Outcome(lp, history, "", "TypeError", FALSE)
  ELSE IF res.kind = OPTIMAL
  THEN Outcome(lp, emit(history, OPTIMAL), OPTIMAL, "", FALSE)
  ELSE IF res.kind = UNBOUNDED
  THEN Outcome(lp, history, "", "Error: unbounded", FALSE)
  ELSE Outcome(lp, pick(res.cands, history, lp).history, OPTIMIZABLE, "", FALSE)

\* next() on a feasible dictionary once pickEnter() has returned res
entered(lp, history, res) ==
  IF res.kind = "TypeError"
  THEN Outcome(lp, history, "", "TypeError", FALSE)
  ELSE IF res.kind = OPTIMAL
  THEN Outcome(lp, emit(history, OPTIMAL), OPTIMAL, "", FALSE)
  ELSE IF res.kind = UNBOUNDED
  THEN Outcome(lp, history, "", "Error: unbounded", FALSE)
  ELSE picked(lp, pick(res.cands, history, lp))

\* A faulty next(), which tests feasibility before unboundedness: the
\* variant of next that C11 is shown to exclude
nextFeasibleFirst(lp, history) ==
  IF ~isFeasible(lp)
  THEN Outcome(lp, emit(history, HELP_NEEDED), HELP_NEEDED, "", FALSE)
  ELSE IF isUnbounded(lp) THEN Outcome(lp, history, UNBOUNDED, "", FALSE)
  ELSE entered(lp, history, pickEnter(lp))

\* next(): the dictionary and the history after the call, the status it
\* returns, the error it throws ("" for none) and whether it pivoted
next(lp, history) ==
  IF isUnbounded(lp) THEN Outcome(lp, history, UNBOUNDED, "", FALSE)
  ELSE IF isFeasible(lp) THEN entered(lp, history, pickEnter(lp))
  ELSE Outcome(lp, emit(history, HELP_NEEDED), HELP_NEEDED, "", FALSE)

(* -------------------------------- inputs ------------------------------- *)

\* Constraint constants of the generated dictionaries lie in -MaxConst..MaxConst
MaxConst == 1
\* The consumer takes at most MaxPairs pairs from one solve() sequence
MaxPairs == 16

\* direct calls of the strategy's pick on one dictionary
MaxCalls == 3

XNames == <<"x1", "x2">>
WNames == <<"w1", "w2">>
Coefs == {-1, 0, 1}

\* algebra.parse of "k + a[1] * x1 + a[2] * x2 + ...": parsed expressions are
\* simplified, so zero coefficients and a zero constant leave no trace
parse(k, a) ==
  simplify(Expr([i \in 1..Len(a) |-> Term("x" \o ToString(i), Int2F(a[i]))],
                <<Int2F(k)>>))

Plain(n, obj, cons) == [variables |-> n, objective |-> obj, constraints |-> cons]

\* the dictionary of m constraints over x1, x2 declared with n variables,
\* with objective coefficients c, constants k and constraint coefficients a
Generated(m, n, c, k, a) ==
  Plain(n, parse(0, c), [i \in 1..m |-> Eq(<<WNames[i]>>, parse(k[i], a[i]))])

\* src/examples/example-0.ts, the README run
Example0 ==
  Plain(2, parse(0, <<2, 3>>),
        <<Eq(<<"w1">>, parse(6, <<-1, -1>>)),
          Eq(<<"w2">>, parse(10, <<-2, -1>>)),
          Eq(<<"w3">>, parse(4, <<1, -1>>))>>)

\* src/examples/example-1.ts
Example1 ==
  Plain(2, parse(0, <<-3, 4>>),
        <<Eq(<<"w1">>, parse(-8, <<4, 2>>)),
          Eq(<<"w2">>, parse(-2, <<2, 0>>)),
          Eq(<<"w3">>, parse(10, <<-3, -2>>)),
          Eq(<<"w4">>, parse(1, <<1, -3>>)),
          Eq(<<"w5">>, parse(-2, <<0, 3>>))>>)

\* src/examples/example-2.ts
Example2 ==
  Plain(2, parse(80000, <<-1, 4>>),
        <<Eq(<<"w1">>, parse(0, <<-2, 1>>)),
          Eq(<<"w2">>, parse(0, <<1, -1>>))>>)

\* src/examples/example-3.ts: two equations for w3
Example3 ==
  Plain(3, parse(0, <<-1, 2, -4>>),
        <<Eq(<<"w1">>, parse(-5, <<1, 5, 3>>)),
          Eq(<<"w2">>, parse(4, <<-2, 1, -2>>)),
          Eq(<<"w3">>, parse(-2, <<1, 2, -1>>)),
          Eq(<<"w3">>, parse(2, <<-1, -2, 1>>))>>)

Examples == {Example0, Example1, Example2, Example3}

\* dictionaries with a constraint whose left-hand side is not a single term:
\* "w1 + w2 = 1 - x1 - x2" and "1 = 1 - x1 - x2" (no term on the left)
Malformed ==
  {Plain(2, parse(0, <<1, 1>>),
         <<Eq(<<"w1", "w2">>, parse(1, <<-1, -1>>))>>),
   Plain(2, parse(0, <<1, 1>>),
         <<Eq(<<"w1">>, parse(1, <<-1, -1>>)),
           Eq(<<>>, parse(1, <<-1, -1>>))>>)}

(* ------------------------------ the program ---------------------------- *)

VARIABLES
  input,       \* the PlainLinearProgram handed to the constructor
  this,        \* the LinearProgram solve() is called on
  helperLP,    \* the auxiliary LinearProgram of infeasibleHelper()
  constraintForNextPivot,  \* local of infeasibleHelper(): a constraint position
  history,     \* the history of each dictionary's CyclingAvoidance strategy
  pc,          \* "new", "rejected", "ready", "yielded", "done" or "threw"
  pairs,       \* the pairs the consumer has received so far
  pivots,      \* number of doPivot calls so far
  error,       \* name of the error that ended the run, "" for none
  res          \* what the direct calls of this.strategy.pick returned, in order

vars == <<input, this, helperLP, constraintForNextPivot, history, pc, pairs,
          pivots, error, res>>

Init ==
  /\ \/ input \in Examples \cup Malformed
     \/ \E m \in 1..Len(WNames), n \in 0..Len(XNames) :
          \E c \in [1..Len(XNames) -> Coefs],
             k \in [1..m -> -MaxConst..MaxConst],
             a \in [1..m -> [1..Len(XNames) -> Coefs]] :
            input = Generated(m, n, c, k, a)
  /\ this = NoLP
  /\ helperLP = NoLP
  /\ constraintForNextPivot = 0
  /\ history = [this |-> {}, helperLP |-> {}]
  /\ pc = "new"
  /\ pairs = <<>>
  /\ pivots = 0
  /\ error = ""
  /\ res = <<>>

Deref(who) == IF who = "this" THEN this ELSE helperLP

\* what the consumer receives: a reference to a dictionary and a status,
\* with the objective constant read at that moment
Pair(who, result, lp) ==
  [lp |-> who, result |-> result, solution |-> getCurrentSolution(lp)]

Last == pairs[Len(pairs)]
Suspended(who, results) ==
  /\ pc = "yielded"
  /\ Last.lp = who
  /\ Last.result \in results

\* new LinearProgram(input)
Construct ==
  /\ pc = "new"
  /\ IF accepts(input)
     THEN /\ this' = LinearProgram(input)
          /\ pc' = "ready"
          /\ UNCHANGED error
     ELSE /\ pc' = "rejected"
          /\ error' = "AssertionError: constructor"
          /\ UNCHANGED this
  /\ UNCHANGED <<res, input, helperLP, constraintForNextPivot, history, pairs, pivots>>

\* A faulty step of the auxiliary run, in which the auxiliary dictionary
\* shares its fields with the outer one, so that a pivot of lp shows in this
\* as well: the variant of Stepped that C24 is shown to exclude
SteppedShared(who, o) ==
  /\ this' = o.lp
  /\ IF who = "this" THEN UNCHANGED helperLP ELSE helperLP' = o.lp
  /\ pivots' = pivots + (IF o.pivoted THEN 1 ELSE 0)
  /\ IF o.threw # ""
     THEN /\ pc' = "threw"
          /\ error' = o.threw
          /\ history' = [history EXCEPT ![who] = o.history]
          /\ UNCHANGED pairs
     ELSE /\ pc' = "yielded"
          /\ history' = [h \in {"this", "helperLP"} |->
                           IF h = who THEN emit(o.history, o.result)
                           ELSE emit(history[h], o.result)]
          /\ pairs' = Append(pairs, Pair(who, o.result, o.lp))
          /\ UNCHANGED error

\* the emit and the yield that follow a call of next() in solve(), o being
\* what next() did; a pair of the auxiliary dictionary is emitted once more
\* by the outer solve() that forwards it
Stepped(who, o) ==
  /\ IF who = "this"
     THEN this' = o.lp /\ UNCHANGED helperLP
     ELSE helperLP' = o.lp /\ UNCHANGED this
  /\ pivots' = pivots + (IF o.pivoted THEN 1 ELSE 0)
  /\ IF o.threw # ""
     THEN /\ pc' = "threw"
          /\ error' = o.threw
          /\ history' = [history EXCEPT ![who] = o.history]
          /\ UNCHANGED pairs
     ELSE /\ pc' = "yielded"
          /\ history' = [h \in {"this", "helperLP"} |->
                           IF h = who THEN emit(o.history, o.result)
                           ELSE emit(history[h], o.result)]
          /\ pairs' = Append(pairs, Pair(who, o.result, o.lp))
          /\ UNCHANGED error

\* solve() on this: one this.next(), the emit and the yield that follow it;
\* entered at the first resume, after an OPTIMIZABLE pair and, through
\* yield *this.solve(), after ORIGIN_FEASIBLE
SolveStep ==
  /\ pc = "ready" \/ Suspended("this", {OPTIMIZABLE, ORIGIN_FEASIBLE})
  /\ Len(pairs) < MaxPairs
  /\ Stepped("this", next(this, history.this))
  /\ UNCHANGED <<res, input, constraintForNextPivot>>

\* A faulty end of solve(), which returns after HELP_NEEDED as well: the
\* variant of Return that C3 is shown to exclude
ReturnAfterHelpNeeded ==
  /\ Suspended("this", {OPTIMAL, UNBOUNDED, INFEASIBLE, HELP_NEEDED})
  /\ pc' = "done"
  /\ UNCHANGED <<res, input, this, helperLP, constraintForNextPivot, history, pairs,
                 pivots, error>>

\* the return after the last pair of the outer dictionary
Return ==
  /\ Suspended("this", {OPTIMAL, UNBOUNDED, INFEASIBLE})
  /\ pc' = "done"
  /\ UNCHANGED <<res, input, this, helperLP, constraintForNextPivot, history, pairs,
                 pivots, error>>

\* A faulty choice of the first pivot row, which keeps the LARGEST constant
\* (> for <): the variant of firstMin that C16 is shown to exclude
RECURSIVE firstMax(_, _, _)
firstMax(cons, i, best) ==
  IF i > Len(cons) THEN best
  ELSE firstMax(cons, i + 1,
                IF best = 0
                   \/ FLt(getConstant(cons[best].rhs.constants),
                          getConstant(cons[i].rhs.constants))
                THEN i ELSE best)

\* position of the first constraint with the smallest constant (strict <
\* against a running minimum that starts at +Infinity)
RECURSIVE firstMin(_, _, _)
firstMin(cons, i, best) ==
  IF i > Len(cons) THEN best
  ELSE firstMin(cons, i + 1,
                IF best = 0
                   \/ FLt(getConstant(cons[i].rhs.constants),
                          getConstant(cons[best].rhs.constants))
                THEN i ELSE best)

\* A faulty auxiliary dictionary, which subtracts the helper variable from
\* every right-hand side (coefficient -1 for +1): the variant of
\* infeasibleHelper that C23 is shown to exclude
infeasibleHelperSubtracts(lp) ==
  LET copy == LinearProgram(Plain(lp.variables, lp.objective, lp.constraints))
      helperVar == Expr(<<Term("helperVariable", FNeg(One))>>, <<>>)
  IN  [copy EXCEPT
         !.helper = "helperVariable",
         !.variables = @ + 1,
         !.objective = Expr(<<Term("helperVariable", FNeg(One))>>, <<>>),
         !.constraints =
            [i \in 1..Len(copy.constraints) |->
                Eq(copy.constraints[i].lhs,
                   ExprAdd(copy.constraints[i].rhs, helperVar))]]

\* infeasibleHelper() up to its first yield: the auxiliary dictionary
infeasibleHelper(lp) ==
  LET copy == LinearProgram(Plain(lp.variables, lp.objective, lp.constraints))
      helperVar == Expr(<<Term("helperVariable", One)>>, <<>>)
  IN  [copy EXCEPT
         !.helper = "helperVariable",
         !.variables = @ + 1,
         !.objective = Expr(<<Term("helperVariable", FNeg(One))>>, <<>>),
         !.constraints =
            [i \in 1..Len(copy.constraints) |->
                Eq(copy.constraints[i].lhs,
                   ExprAdd(copy.constraints[i].rhs, helperVar))]]

\* after HELP_NEEDED: build the auxiliary dictionary and forward HELPER_CREATED
HelperCreate ==
  /\ Suspended("this", {HELP_NEEDED})
  /\ Len(pairs) < MaxPairs
  /\ IF accepts(Plain(this.variables, this.objective, this.constraints))
     THEN /\ helperLP' = infeasibleHelper(this)
          /\ constraintForNextPivot' = firstMin(this.constraints, 1, 0)
          /\ history' = [this |-> emit(history.this, HELPER_CREATED),
                         helperLP |-> {}]
          /\ pairs' = Append(pairs, Pair("helperLP", HELPER_CREATED, helperLP'))
          /\ UNCHANGED <<pc, error>>
     ELSE /\ pc' = "threw"
          /\ error' = "AssertionError: constructor"
          /\ UNCHANGED <<helperLP, constraintForNextPivot, history, pairs>>
  /\ UNCHANGED <<res, input, this, pivots>>

\* after HELPER_CREATED: the first pivot and HELPER_FEASIBLE
HelperPivot ==
  /\ Suspended("helperLP", {HELPER_CREATED})
  /\ Len(pairs) < MaxPairs
  /\ helperLP' = doPivot(helperLP, helperLP.helper, constraintForNextPivot)
  /\ pivots' = pivots + 1
  /\ history' = [history EXCEPT !.this = emit(@, HELPER_FEASIBLE)]
  /\ pairs' = Append(pairs, Pair("helperLP", HELPER_FEASIBLE, helperLP'))
  /\ UNCHANGED <<res, input, this, constraintForNextPivot, pc, error>>

\* lp.solve() on the auxiliary dictionary: one lp.next(), its emit and yield,
\* and the emit of the outer solve() that forwards the pair
HelperStep ==
  /\ Suspended("helperLP", {HELPER_FEASIBLE, OPTIMIZABLE})
  /\ Len(pairs) < MaxPairs
  /\ Stepped("helperLP", next(helperLP, history.helperLP))
  /\ UNCHANGED <<res, input, constraintForNextPivot>>

\* A faulty reconciliation, which sets the helper variable to -1 instead of
\* 0: the variant of reconciled that C27 is shown to exclude
reconciledBelow(hlp) ==
  [i \in 1..Len(hlp.constraints) |->
      Eq(hlp.constraints[i].lhs,
         eval(hlp.constraints[i].rhs,
              hlp.helper :> Expr(<<>>, <<FNeg(One)>>), FALSE))]

\* the constraints of the auxiliary dictionary with the helper variable set
\* to 0
reconciled(hlp) ==
  [i \in 1..Len(hlp.constraints) |->
      Eq(hlp.constraints[i].lhs,
         eval(hlp.constraints[i].rhs, hlp.helper :> Expr(<<>>, <<Zero>>), FALSE))]

\* varMap[lhs] = rhs for every constraint in order: the last one wins
substitution(cons) ==
  [v \in {cons[i].lhs[1] : i \in 1..Len(cons)} |->
      cons[CHOOSE i \in 1..Len(cons) :
              /\ cons[i].lhs[1] = v
              /\ \A j \in (i + 1)..Len(cons) : cons[j].lhs[1] # v].rhs]

\* A faulty end of the auxiliary phase, which reads the optimum the wrong
\* way round (== for !=): the variant of HelperEnd that C12 is shown to exclude
HelperEndInverted ==
  /\ Suspended("helperLP", {OPTIMAL, UNBOUNDED})
  /\ Len(pairs) < MaxPairs
  /\ IF Last.result # OPTIMAL
     THEN /\ pc' = "threw"
          /\ error' = "AssertionError: helperResult"
          /\ UNCHANGED <<this, history, pairs>>
     ELSE IF getCurrentSolution(helperLP) = Zero
     THEN /\ history' = [history EXCEPT !.this = emit(@, INFEASIBLE)]
          /\ pairs' = Append(pairs, Pair("this", INFEASIBLE, this))
          /\ UNCHANGED <<this, pc, error>>
     ELSE /\ this' = [this EXCEPT
                        !.constraints = reconciled(helperLP),
                        !.objective = eval(this.objective,
                                           substitution(reconciled(helperLP)),
                                           FALSE)]
          /\ history' = [history EXCEPT !.this = emit(@, ORIGIN_FEASIBLE)]
          /\ pairs' = Append(pairs, Pair("this", ORIGIN_FEASIBLE, this'))
          /\ UNCHANGED <<pc, error>>
  /\ UNCHANGED <<res, input, helperLP, constraintForNextPivot, pivots>>

\* after the auxiliary sequence has ended: INFEASIBLE, or the reconciled
\* dictionary with ORIGIN_FEASIBLE
HelperEnd ==
  /\ Suspended("helperLP", {OPTIMAL, UNBOUNDED})
  /\ Len(pairs) < MaxPairs
  /\ IF Last.result # OPTIMAL
     THEN /\ pc' = "threw"
          /\ error' = "AssertionError: helperResult"
          /\ UNCHANGED <<this, history, pairs>>
     ELSE IF getCurrentSolution(helperLP) # Zero
     THEN /\ history' = [history EXCEPT !.this = emit(@, INFEASIBLE)]
          /\ pairs' = Append(pairs, Pair("this", INFEASIBLE, this))
          /\ UNCHANGED <<this, pc, error>>
     ELSE /\ this' = [this EXCEPT
                        !.constraints = reconciled(helperLP),
                        !.objective = eval(this.objective,
                                           substitution(reconciled(helperLP)),
                                           FALSE)]
          /\ history' = [history EXCEPT !.this = emit(@, ORIGIN_FEASIBLE)]
          /\ pairs' = Append(pairs, Pair("this", ORIGIN_FEASIBLE, this'))
          /\ UNCHANGED <<pc, error>>
  /\ UNCHANGED <<res, input, helperLP, constraintForNextPivot, pivots>>

Next ==
  \/ Construct
  \/ SolveStep
  \/ Return
  \/ HelperCreate
  \/ HelperPivot
  \/ HelperStep
  \/ HelperEnd

Spec == Init /\ [][Next]_vars

\* what a direct call of pick leaves behind, p being what pick computed
Returned(p) ==
  /\ res' = Append(res, p.res)
  /\ history' = [history EXCEPT !.this = p.history]

\* this.strategy.pick(candidates), called directly on a constructed, feasible
\* dictionary with the candidates of its ratio test; a second call on the
\* same dictionary finds the signature the first call recorded
Pick ==
  /\ pc = "ready"
  /\ Len(res) < MaxCalls
  /\ isFeasible(this)
  /\ pickEnter(this).kind = "candidates"
  /\ Returned(pick(pickEnter(this).cands, history.this, this))
  /\ UNCHANGED <<input, this, helperLP, constraintForNextPivot, pc, pairs,
                 pivots, error>>

PickNext ==
  \/ Construct
  \/ Pick

\* a constructed dictionary whose policy is called again and again
PickSpec == Init /\ [][PickNext]_vars

(* -------------------------------- claims ------------------------------- *)

Terminal == {OPTIMAL, UNBOUNDED, INFEASIBLE}

\* the dictionary of the pair the consumer holds
Yielded == Deref(Last.lp)

\* solveAll(): the status of the last pair of the finished sequence
solveAll == Last.result

BasicNames(lp) == {lp.constraints[i].lhs[1] : i \in 1..Len(lp.constraints)}
Names(ts) == {ts[i].variable : i \in 1..Len(ts)}
Linear(e) == {<<e.terms[i].variable, e.terms[i].coeff>> : i \in 1..Len(e.terms)}

\* C1: whenever a pair with status OPTIMAL is yielded, the yielded dictionary
\* is feasible and no term of its objective has a positive coefficient.
C1_OptimalPairIsOptimal ==
  (pc = "yielded" /\ Last.result = OPTIMAL)
     => (isFeasible(Yielded) /\ isOptimal(Yielded))

\* C2: the run on example-0 yields exactly the pairs optimizable,
\* optimizable, optimal of the outer dictionary with objective constants 10,
\* 14, 17, and ends with x2 = 5 - 1/2 w1 - 1/2 w3, x1 = 1 - 1/2 w1 + 1/2 w3,
\* w2 = 3 + 3/2 w1 - 1/2 w3 in this order.
C2_GoldenRun ==
  input = Example0 =>
    /\ pc \notin {"rejected", "threw"}
    /\ Len(pairs) <= 3
    /\ \A i \in 1..Len(pairs) :
          pairs[i] = [lp |-> "this",
                      result |-> <<OPTIMIZABLE, OPTIMIZABLE, OPTIMAL>>[i],
                      solution |-> Int2F(<<10, 14, 17>>[i])]
    /\ pc = "done" => Len(pairs) = 3
    /\ Len(pairs) = 3 =>
          /\ [i \in 1..3 |-> this.constraints[i].lhs] = <<<<"x2">>, <<"x1">>, <<"w2">>>>
          /\ [i \in 1..3 |-> constant(this.constraints[i].rhs)]
                = <<Int2F(5), Int2F(1), Int2F(3)>>
          /\ Linear(this.constraints[1].rhs)
                = {<<"w1", Frac(-1, 2)>>, <<"w3", Frac(-1, 2)>>}
          /\ Linear(this.constraints[2].rhs)
                = {<<"w1", Frac(-1, 2)>>, <<"w3", Frac(1, 2)>>}
          /\ Linear(this.constraints[3].rhs)
                = {<<"w1", Frac(3, 2)>>, <<"w3", Frac(-1, 2)>>}

C2_Witness == input = Example0 /\ pc = "done"

\* C3: a finished run ends with a pair of the outer dictionary whose status
\* is OPTIMAL, UNBOUNDED or INFEASIBLE, which solveAll() returns, and no pair
\* is yielded after such a pair.
C3_EndsWithTerminalPair ==
  [][/\ pc' = "done" =>
           /\ Len(pairs') > 0
           /\ pairs'[Len(pairs')].lp = "this"
           /\ solveAll' \in Terminal
     /\ Suspended("this", Terminal) => pairs' = pairs]_vars

C3_Witness ==
  /\ pc = "done"
  /\ \E i \in 1..Len(pairs) : pairs[i].result = ORIGIN_FEASIBLE

\* C4: solve() on every constructed dictionary terminates with a terminal
\* status: no run is ended by an exception, and no run is as long as MaxPairs
\* pairs.
C4_SolveTerminates ==
  /\ pc # "threw"
  /\ Len(pairs) < MaxPairs

\* C5: the assertion after doPivot never fails, and from every feasible
\* dictionary the pivot on each candidate of the ratio test gives a
\* feasible dictionary.
C5_PivotKeepsFeasible ==
  /\ error # "AssertionError: isFeasible"
  /\ \A who \in {"this", "helperLP"} :
        (isFeasible(Deref(who)) /\ pickEnter(Deref(who)).kind = "candidates")
           => \A i \in 1..Len(pickEnter(Deref(who)).cands) :
                 isFeasible(doPivot(Deref(who),
                                    pickEnter(Deref(who)).cands[i].variable,
                                    pickEnter(Deref(who)).cands[i].ci))

C5_Witness ==
  /\ pc = "yielded"
  /\ pivots > 1
  /\ Last.result = OPTIMIZABLE
  /\ Len(pickEnter(Yielded).cands) > 1

SetsPartition(lp) ==
  /\ Len(lp.basics) + Len(lp.nonBasics) = lp.variables + Len(lp.constraints)
  /\ Range(lp.basics) \cap Range(lp.nonBasics) = {}

\* C6: at every yielded pair the yielded dictionary has |basics| +
\* |nonBasics| = variables + number of constraints, with basics and
\* nonBasics disjoint.
C6_SetsPartitionAtPairs == pc = "yielded" => SetsPartition(Yielded)

\* C7: after every doPivot the pivoted dictionary has basics and nonBasics
\* disjoint and |basics| + |nonBasics| = variables + number of constraints.
C7_SetsPartitionAfterPivot ==
  [][pivots' # pivots =>
        SetsPartition(IF this' # this THEN this' ELSE helperLP')]_vars

\* C8: at every yielded pair the left-hand variable of every constraint is
\* in basics and every variable of a right-hand side is in nonBasics.
C8_SetsAgreeWithConstraints ==
  pc = "yielded" =>
     \A i \in 1..Len(Yielded.constraints) :
        /\ Yielded.constraints[i].lhs[1] \in Range(Yielded.basics)
        /\ Names(Yielded.constraints[i].rhs.terms) \subseteq Range(Yielded.nonBasics)

\* C9: in every dictionary the constructor accepts, the left-hand variables
\* of the constraints are pairwise distinct.
C9_DistinctBasics ==
  pc = "ready" =>
     /\ Len(this.basics) = Len(this.constraints)
     /\ \A i, j \in 1..Len(this.constraints) :
           i # j => this.constraints[i].lhs # this.constraints[j].lhs

\* C10: at every yielded pair the objective of the yielded dictionary has no
\* term in a left-hand variable of its constraints.
C10_DictionaryForm ==
  pc = "yielded" =>
     Names(Yielded.objective.terms) \cap BasicNames(Yielded) = {}

\* C11: when isUnbounded() holds on the constructed dictionary, feasible or
\* not, solve() yields the single pair UNBOUNDED of the unchanged outer
\* dictionary, without a pivot and without an auxiliary dictionary.
C11_UnboundedAtStart ==
  (pc \in {"yielded", "done", "threw"} /\ isUnbounded(LinearProgram(input))) =>
     /\ pc # "threw"
     /\ pairs = <<Pair("this", UNBOUNDED, LinearProgram(input))>>
     /\ this = LinearProgram(input)
     /\ pivots = 0
     /\ helperLP = NoLP

C11_Witness ==
  /\ pc = "done"
  /\ isUnbounded(this)
  /\ ~isFeasible(this)
  /\ Last.result = UNBOUNDED

\* C12: once the auxiliary dictionary has yielded OPTIMAL, the next pair is a
\* pair of the outer dictionary: INFEASIBLE, the last pair, with the outer
\* dictionary as constructed, when the auxiliary objective constant is not 0,
\* and ORIGIN_FEASIBLE when it is 0; objective x1 with w1 = -1 - x1 yields
\* HELP_NEEDED, HELPER_CREATED, HELPER_FEASIBLE, OPTIMAL, INFEASIBLE.
C12_AuxiliaryVerdict ==
  [][/\ (Suspended("helperLP", {OPTIMAL}) /\ pairs' # pairs) =>
           /\ Len(pairs') = Len(pairs) + 1
           /\ pairs'[Len(pairs')].lp = "this"
           /\ pairs'[Len(pairs')].result =
                 IF getCurrentSolution(helperLP) # Zero
                 THEN INFEASIBLE ELSE ORIGIN_FEASIBLE
           /\ getCurrentSolution(helperLP) # Zero => this' = LinearProgram(input)
     /\ Suspended("this", {INFEASIBLE}) => pairs' = pairs
     /\ (/\ input = Generated(1, 1, <<1, 0>>, <<-1>>, <<<<-1, 0>>>>)
         /\ pc' = "done") =>
           [i \in 1..Len(pairs') |-> pairs'[i].result]
              = <<HELP_NEEDED, HELPER_CREATED, HELPER_FEASIBLE, OPTIMAL,
                  INFEASIBLE>>]_vars

C12_Witness ==
  /\ pc = "done"
  /\ Last.result = INFEASIBLE
  /\ pairs[Len(pairs) - 1].result = OPTIMAL
  /\ getCurrentSolution(helperLP) # Zero

\* next() answers OPTIMAL and changes nothing: neither the dictionary (its
\* objective, constraints, basics and nonBasics) nor by a pivot or an error
Idle(lp, h) ==
  /\ next(lp, h).result = OPTIMAL
  /\ next(lp, h).lp = lp
  /\ next(lp, h).threw = ""
  /\ ~next(lp, h).pivoted

\* C13, as amended: on a FEASIBLE dictionary on which isOptimal() holds, one
\* call of next() returns OPTIMAL and leaves the objective, the constraints,
\* basics and nonBasics unchanged.
C13_OptimalIsIdle ==
  \A who \in {"this", "helperLP"} :
     (isFeasible(Deref(who)) /\ isOptimal(Deref(who)))
        => Idle(Deref(who), history[who])

\* C13, as stated: on every dictionary on which isOptimal() holds, one call
\* of next() returns OPTIMAL and leaves the dictionary unchanged.
C13_AsStated ==
  \A who \in {"this", "helperLP"} :
     isOptimal(Deref(who)) => Idle(Deref(who), history[who])

C13_Witness ==
  /\ pc = "yielded"
  /\ Last.result = OPTIMAL
  /\ pivots > 0
  /\ isFeasible(Yielded)
  /\ isOptimal(Yielded)
  /\ Len(Yielded.objective.terms) > 0
  /\ Idle(Yielded, history[Last.lp])

\* the variable names found in the objective and the right-hand sides
NamesOf(plain) ==
  Names(plain.objective.terms)
    \cup UNION {Names(plain.constraints[i].rhs.terms) :
                  i \in 1..Len(plain.constraints)}

\* C14: the constructor fails, and builds no dictionary, when variables <= 0,
\* when a left-hand side is not a single term, or when the number of names
\* in the objective and the right-hand sides differs from variables; when it
\* succeeds, basics is the set of left-hand variables, nonBasics the set of
\* those names, and |nonBasics| = variables.
C14_Construction ==
  pc # "new" =>
     /\ (\/ input.variables <= 0
         \/ \E i \in 1..Len(input.constraints) : Len(input.constraints[i].lhs) # 1
         \/ Cardinality(NamesOf(input)) # input.variables)
           => (pc = "rejected" /\ this = NoLP
                 /\ error = "AssertionError: constructor")
     /\ pc = "ready" =>
           /\ Range(this.basics) = BasicNames(input)
           /\ Range(this.nonBasics) = NamesOf(input)
           /\ Len(this.nonBasics) = this.variables
           /\ Cardinality(Range(this.nonBasics)) = this.variables
           /\ Cardinality(Range(this.basics)) = Len(this.basics)

C14_Witness ==
  /\ pc = "rejected"
  /\ input.variables > 0
  /\ \A i \in 1..Len(input.constraints) : Len(input.constraints[i].lhs) = 1
  /\ Cardinality(NamesOf(input)) # input.variables

\* C15: the auxiliary solve always ends in OPTIMAL: the auxiliary dictionary
\* never yields UNBOUNDED or HELP_NEEDED, the assertion on helperResult never
\* fails, and no run stops while the auxiliary dictionary is being solved.
C15_AuxiliaryEndsOptimal ==
  /\ error # "AssertionError: helperResult"
  /\ \A i \in 1..Len(pairs) :
        pairs[i].lp = "helperLP" => pairs[i].result \notin {UNBOUNDED, HELP_NEEDED}
  /\ ~(pc = "threw" /\ Len(pairs) > 0 /\ Last.lp = "helperLP")

\* C16: the dictionary yielded with HELPER_CREATED has not been pivoted;
\* HELPER_FEASIBLE is the pair that follows HELPER_CREATED, after exactly one
\* pivot, which makes the helper variable basic, and the dictionary yielded
\* with HELPER_FEASIBLE is feasible.
C16_HelperPhases ==
  /\ \A i \in 1..Len(pairs) :
        /\ (pairs[i].result = HELPER_CREATED /\ i < Len(pairs))
              => pairs[i + 1].result = HELPER_FEASIBLE
        /\ pairs[i].result = HELPER_FEASIBLE
              => (i > 1 /\ pairs[i - 1].result = HELPER_CREATED)
  /\ (pc = "yielded" /\ Last.result = HELPER_CREATED) =>
        /\ pivots = 0
        /\ helperLP = infeasibleHelper(this)
  /\ (pc = "yielded" /\ Last.result = HELPER_FEASIBLE) =>
        /\ pivots = 1
        /\ helperLP = doPivot(infeasibleHelper(this), "helperVariable",
                              constraintForNextPivot)
        /\ helperLP.helper \in Range(helperLP.basics)
        /\ helperLP.helper \notin Range(helperLP.nonBasics)
        /\ helperLP.constraints[constraintForNextPivot].lhs = <<helperLP.helper>>
        /\ isFeasible(helperLP)

C16_Witness ==
  /\ pc = "yielded"
  /\ Last.result = HELPER_FEASIBLE
  /\ constraintForNextPivot = 2
  /\ ~isFeasible(this)
  /\ isFeasible(helperLP)

\* what C17 says of pick(c, h, lp), sig being the objective's signature: the
\* candidate returned and the history left
Contract(c, h, sig) ==
  [res |-> IF c[1].bound = Zero /\ sig \in h /\ Len(c) >= 2 THEN c[2] ELSE c[1],
   history |-> IF c[1].bound # Zero THEN {}
               ELSE IF sig \in h THEN h
               ELSE h \cup {sig}]

C18_HistoryScoped ==
  pc = "yielded" =>
    /\ Last.result \in {OPTIMAL, UNBOUNDED, INFEASIBLE} => history[Last.lp] = {}
    /\ Last.result = HELPER_CREATED => history.helperLP = {}
    /\ Last.result = ORIGIN_FEASIBLE => history.this = {}

\* a final status reached by a degenerate pivot, whose signature the policy
\* had recorded
C18_Witness ==
  /\ pc = "yielded"
  /\ Len(pairs) >= 2
  /\ Last.result \in {OPTIMAL, UNBOUNDED}
  /\ pairs[Len(pairs) - 1].lp = Last.lp
  /\ pairs[Len(pairs) - 1].result = OPTIMIZABLE
  /\ pairs[Len(pairs) - 1].solution = Last.solution
  /\ history[Last.lp] = {}

\* the constraints that limit the increase of v, and the limit each one sets
Limiting(lp, v) ==
  {i \in 1..Len(lp.constraints) :
      coeffOf(lp.constraints[i].rhs.terms, v)[1] < 0}

Ratio(lp, v, i) ==
  FDiv(getConstant(lp.constraints[i].rhs.constants),
       FNeg(coeffOf(lp.constraints[i].rhs.terms, v)))

\* the non-basic variables with a strictly positive objective coefficient,
\* in the order of nonBasics
Profitable(lp) ==
  SelectSeq(lp.nonBasics, LAMBDA v : coeffOf(lp.objective.terms, v)[1] > 0)

\* c is the candidate of v: the least limit and the first constraint, in the
\* order of the constraint list, that sets it
CandidateOf(lp, v, c) ==
  /\ c.variable = v
  /\ c.ci \in Limiting(lp, v)
  /\ c.bound = Ratio(lp, v, c.ci)
  /\ \A j \in Limiting(lp, v) :
        /\ ~FLt(Ratio(lp, v, j), c.bound)
        /\ Ratio(lp, v, j) = c.bound => c.ci <= j

\* found lists one candidate per profitable variable, in order
Candidates(lp, found, vs) ==
  /\ found.kind = "candidates"
  /\ Len(found.cands) = Len(vs)
  /\ \A k \in 1..Len(vs) : CandidateOf(lp, vs[k], found.cands[k])

\* C19: on a feasible dictionary that is neither optimal nor unbounded,
\* pickEnter returns one candidate for each non-basic variable with a
\* strictly positive objective coefficient, in the order of nonBasics; a
\* candidate's bound is the least constant / (-coefficient) over the
\* constraints with a strictly negative coefficient, and its constraint is
\* the first one of the list that attains it.
C19_CandidateSearch ==
  \A who \in {"this", "helperLP"} :
     (isFeasible(Deref(who)) /\ ~isOptimal(Deref(who))
        /\ ~isUnbounded(Deref(who)))
        => Candidates(Deref(who), pickEnter(Deref(who)),
                      Profitable(Deref(who)))

\* found is a result of pickEnter in which a constraint without a constant
\* term has set the bound 0
Completes(lp, found) ==
  /\ found.kind \in {OPTIMAL, UNBOUNDED, "candidates"}
  /\ \A k \in 1..Len(found.cands) :
        Len(lp.constraints[found.cands[k].ci].rhs.constants) = 0
           => found.cands[k].bound = Zero

\* C20: on every feasible dictionary, the degenerate ones included where the
\* second or a later constraint with a negative coefficient has no constant
\* term, pickEnter completes and returns optimal, unbounded or a candidate
\* list, and a constraint without a constant term contributes the bound 0,
\* as isFeasible reads it.
C20_EmptyConstantIsZero ==
  \A who \in {"this", "helperLP"} :
     isFeasible(Deref(who)) => Completes(Deref(who), pickEnter(Deref(who)))

\* C21: the 'internal contradiction' error of next() is unreachable: in
\* every reachable state, those after ORIGIN_FEASIBLE included, a dictionary
\* on which isUnbounded() is false and isFeasible() is true never gets
\* UNBOUNDED from pickEnter, and no run ends by that error.
C21_NoContradiction ==
  /\ error # "Error: unbounded"
  /\ \A who \in {"this", "helperLP"} :
        (~isUnbounded(Deref(who)) /\ isFeasible(Deref(who)))
           => pickEnter(Deref(who)).kind # UNBOUNDED

\* the outer run, resumed after ORIGIN_FEASIBLE, has got candidates from
\* pickEnter and has pivoted on one of them
C21_Witness ==
  /\ pc = "yielded"
  /\ \E i \in 1..Len(pairs) : pairs[i].result = ORIGIN_FEASIBLE
  /\ Last.result = OPTIMIZABLE
  /\ Last.lp = "this"
  /\ ~isUnbounded(this)
  /\ isFeasible(this)
  /\ pickEnter(this).kind # UNBOUNDED

\* the variable that enters and the position of the constraint that leaves
\* in the pivot of the next step: the helper variable against
\* constraintForNextPivot after HELPER_CREATED, else what the policy picks
Entering(lp, h) == pick(pickEnter(lp).cands, h, lp).res
Pivoting ==
  IF pc = "yielded" /\ Last.result = HELPER_CREATED
  THEN [lp |-> "helperLP", e |-> helperLP.helper, ci |-> constraintForNextPivot]
  ELSE IF pc = "yielded" /\ Last.lp = "helperLP"
  THEN [lp |-> "helperLP", e |-> Entering(helperLP, history.helperLP).variable,
        ci |-> Entering(helperLP, history.helperLP).ci]
  ELSE [lp |-> "this", e |-> Entering(this, history.this).variable,
        ci |-> Entering(this, history.this).ci]

\* the dictionary who names, after the step
After(who) == IF who = "this" THEN this' ELSE helperLP'

\* what doPivot(e, c) does to the constraints and the objective, c being the
\* constraint at position ci of before
Rewritten(before, after, e, ci) ==
  /\ Len(after.constraints) = Len(before.constraints)
  /\ after.constraints[ci] = Eq(<<e>>, solveFor(before.constraints[ci], e))
  /\ \A i \in 1..Len(before.constraints) :
        /\ i # ci => after.constraints[i].lhs = before.constraints[i].lhs
        /\ e \notin Names(after.constraints[i].rhs.terms)
  /\ e \notin Names(after.objective.terms)

\* e has moved from nonBasics to basics and b from basics to nonBasics
Swapped(before, after, e, b) ==
  /\ e \in Range(before.nonBasics) /\ e \notin Range(before.basics)
  /\ b \in Range(before.basics) /\ b \notin Range(before.nonBasics)
  /\ Range(after.basics) = (Range(before.basics) \ {b}) \cup {e}
  /\ Range(after.nonBasics) = (Range(before.nonBasics) \ {e}) \cup {b}

\* C22: a pivot with entering variable e and leaving constraint c (basic
\* variable b) keeps the number and the order of the constraints; the
\* constraint at c's position gets left-hand side e and c solved for e as
\* right-hand side; every other constraint keeps its left-hand side;
\* afterwards e occurs in no right-hand side and not in the objective; e
\* moves from nonBasics to basics and b from basics to nonBasics.
C22_PivotContract ==
  [][pivots' # pivots =>
       /\ Rewritten(Deref(Pivoting.lp), After(Pivoting.lp), Pivoting.e,
                    Pivoting.ci)
       /\ Swapped(Deref(Pivoting.lp), After(Pivoting.lp), Pivoting.e,
                  Deref(Pivoting.lp).constraints[Pivoting.ci].lhs[1])]_vars

\* aux is the auxiliary dictionary of lp with the helper variable h
Auxiliary(lp, aux, h) ==
  /\ aux.variables = lp.variables + 1
  /\ Len(aux.constraints) = Len(lp.constraints)
  /\ Linear(aux.objective) = {<<h, FNeg(One)>>}
  /\ getConstant(aux.objective.constants) = Zero
  /\ \A i \in 1..Len(lp.constraints) :
        /\ aux.constraints[i].lhs = lp.constraints[i].lhs
        /\ Linear(aux.constraints[i].rhs)
              = Linear(lp.constraints[i].rhs) \cup {<<h, One>>}
        /\ getConstant(aux.constraints[i].rhs.constants)
              = getConstant(lp.constraints[i].rhs.constants)

\* k is the first position, in list order, of a smallest constant term
SmallestConstant(cons, k) ==
  /\ k \in 1..Len(cons)
  /\ \A j \in 1..Len(cons) :
        /\ ~FLt(getConstant(cons[j].rhs.constants),
                getConstant(cons[k].rhs.constants))
        /\ getConstant(cons[j].rhs.constants)
              = getConstant(cons[k].rhs.constants) => k <= j

\* the helper variable has become the left-hand side at position k only
HelperEnters(before, after, k) ==
  \A i \in 1..Len(before.constraints) :
     after.constraints[i].lhs
       = IF i = k THEN <<before.helper>> ELSE before.constraints[i].lhs

\* C23: the auxiliary dictionary yielded with HELPER_CREATED has variables =
\* original variables + 1, the same number of constraints in the same order,
\* objective minus the helper variable, and each right-hand side equal to
\* the original one plus the helper variable with coefficient +1; the first
\* pivot brings the helper variable in against the first constraint, in list
\* order, with the smallest constant term.
C23_AuxiliaryDictionary ==
  [][(pc = "yielded" /\ Last.result = HELPER_CREATED) =>
       /\ Auxiliary(this, helperLP, helperLP.helper)
       /\ helperLP.helper # ""
       /\ pivots' # pivots =>
             \E k \in 1..Len(this.constraints) :
                /\ SmallestConstant(this.constraints, k)
                /\ HelperEnters(helperLP, helperLP', k)]_vars

\* the first pivot is done and two constraints tied for the smallest
\* constant term
C23_Witness ==
  /\ pc = "yielded"
  /\ Last.result = HELPER_FEASIBLE
  /\ Len(this.constraints) >= 2
  /\ getConstant(this.constraints[1].rhs.constants)
       = getConstant(this.constraints[2].rhs.constants)
  /\ SmallestConstant(this.constraints, 1)
  /\ helperLP.constraints[1].lhs = <<helperLP.helper>>

\* the auxiliary phase: from the HELP_NEEDED pair to the last pair of the
\* auxiliary dictionary
AuxiliaryPhase ==
  /\ pc = "yielded"
  /\ Last.result = HELP_NEEDED \/ Last.lp = "helperLP"

\* C24: during the auxiliary phase the outer dictionary is not modified:
\* from the HELP_NEEDED pair until the auxiliary dictionary's OPTIMAL pair
\* its objective, constraints, basics and nonBasics are those it had at
\* HELP_NEEDED, which are those of its construction, and every pivot of the
\* phase changes the auxiliary copy only.
C24_OuterUntouched ==
  [][AuxiliaryPhase =>
       /\ this = LinearProgram(input)
       /\ Last.result \notin {OPTIMAL, UNBOUNDED} =>
             /\ this' = this
             /\ pivots' # pivots => helperLP' # helperLP]_vars

\* the auxiliary dictionary has reached OPTIMAL after several pivots, next
\* to the outer dictionary as it was constructed
C24_Witness ==
  /\ pc = "yielded"
  /\ Last.lp = "helperLP"
  /\ Last.result = OPTIMAL
  /\ pivots >= 2
  /\ this = LinearProgram(input)
  /\ helperLP.constraints # infeasibleHelper(this).constraints

\* C25: each pair yielded by solve() shows the dictionary as it is right
\* after that step's transition, and the dictionary seen through an earlier
\* pair does not change when the consumer advances the sequence: whatever
\* pair the consumer has kept, the dictionary it refers to still has the
\* objective constant it had when the pair was yielded.
C25_PairsAreSnapshots ==
  \A i \in 1..Len(pairs) :
     getCurrentSolution(Deref(pairs[i].lp)) = pairs[i].solution

\* C26: between two consecutive pairs at most one pivot is executed, and
\* every OPTIMIZABLE pair follows exactly one pivot, in both phases; a step
\* of the consumer yields at most one pair, and a pivot happens only in a
\* step that yields a pair or ends the run by an error.
C26_OnePivotPerPair ==
  [][/\ pivots' \in {pivots, pivots + 1}
     /\ Len(pairs') \in {Len(pairs), Len(pairs) + 1}
     /\ pivots' # pivots => Len(pairs') = Len(pairs) + 1 \/ pc' = "threw"
     /\ (Len(pairs') = Len(pairs) + 1
           /\ pairs'[Len(pairs')].result = OPTIMIZABLE)
          => pivots' = pivots + 1]_vars

\* OPTIMIZABLE pairs of the auxiliary and of the outer dictionary have been
\* yielded, one pivot each
C26_Witness ==
  /\ pc = "yielded"
  /\ \E i \in 1..Len(pairs) :
        pairs[i].lp = "helperLP" /\ pairs[i].result = OPTIMIZABLE
  /\ Last.lp = "this"
  /\ Last.result = OPTIMIZABLE
  /\ pivots >= 3

\* C27: HELP_NEEDED is yielded at most once per run and only as the first
\* pair: the dictionary yielded with ORIGIN_FEASIBLE is feasible, so the
\* solve resumed after ORIGIN_FEASIBLE never yields HELP_NEEDED and starts
\* no second auxiliary phase.
C27_HelpNeededOnce ==
  /\ \A i \in 1..Len(pairs) :
        /\ pairs[i].result = HELP_NEEDED => i = 1
        /\ pairs[i].result = HELPER_CREATED => i = 2
  /\ (pc = "yielded" /\ Last.result = ORIGIN_FEASIBLE) => isFeasible(this)

\* the solve resumed after ORIGIN_FEASIBLE has yielded its last pair
C27_Witness ==
  /\ pc = "yielded"
  /\ pairs[1].result = HELP_NEEDED
  /\ \E i \in 1..Len(pairs) : pairs[i].result = ORIGIN_FEASIBLE
  /\ Last.lp = "this"
  /\ Last.result \in {OPTIMAL, UNBOUNDED}
  /\ pairs[Len(pairs) - 1].result = OPTIMIZABLE

\* every variable name the dictionary mentions
Mentioned(lp) ==
  BasicNames(lp) \cup NamesOf(lp)

\* C28: the dictionary yielded with ORIGIN_FEASIBLE, and every dictionary
\* yielded after it, does not mention the helper variable, neither as a
\* left-hand side nor in a right-hand side nor in the objective, also when
\* the auxiliary solve ended with optimum 0 while the helper variable was
\* still basic.
C28_HelperGone ==
  (/\ pc = "yielded"
   /\ Last.lp = "this"
   /\ \E i \in 1..Len(pairs) : pairs[i].result = ORIGIN_FEASIBLE)
     => helperLP.helper \notin Mentioned(this)

\* the pairs at i and i + 1 are of one dictionary and the second one was
\* yielded by a next() that pivoted
Consecutive(i) ==
  /\ pairs[i].lp = pairs[i + 1].lp
  /\ pairs[i].result \in {OPTIMIZABLE, HELPER_FEASIBLE, ORIGIN_FEASIBLE}
  /\ pairs[i + 1].result = OPTIMIZABLE

\* C29: within one solving phase (the outer run before or after
\* ORIGIN_FEASIBLE, the auxiliary run after HELPER_FEASIBLE) the objective's
\* constant term, as getCurrentSolution() returns it, never decreases from
\* one pivot to the next, and it strictly increases on every pivot whose
\* chosen candidate has a non-zero bound.
C29_ObjectiveMonotone ==
  [][(pivots' # pivots /\ ~(pc = "yielded" /\ Last.result = HELPER_CREATED))
       => /\ ~FLt(getCurrentSolution(After(Pivoting.lp)),
                  getCurrentSolution(Deref(Pivoting.lp)))
          /\ Entering(Deref(Pivoting.lp), history[Pivoting.lp]).bound # Zero
               => FLt(getCurrentSolution(Deref(Pivoting.lp)),
                      getCurrentSolution(After(Pivoting.lp)))]_vars

\* the last pivot had a candidate with a non-zero bound and has increased
\* the objective constant
C29_Witness ==
  /\ pc = "yielded"
  /\ Len(pairs) >= 2
  /\ Consecutive(Len(pairs) - 1)
  /\ FLt(pairs[Len(pairs) - 1].solution, Last.solution)

====
